---------------------------- MODULE Spec2Model ----------------------------
(***************************************************************************)
(* Model of btc_monitor_github.py: the MA20/MA60 crossover monitor.        *)
(*                                                                         *)
(* One run of main() is modelled: the BARK_KEY test, the construction of   *)
(* MACrossoverMonitor and the polling loop of run_crossover_monitoring,    *)
(* one action per step of a check cycle (loop test, OKX request, Binance   *)
(* request, moving averages, crossover detection, notification, sleep).    *)
(*                                                                         *)
(* Numbers.  A kline is reduced to its close (the only field the           *)
(* computations read); closes are naturals.  np.mean over a window of 20   *)
(* or 60 closes is a rational with denominator dividing 60, so every       *)
(* moving average is kept multiplied by Scale = 60 and is then an integer: *)
(* comparisons between averages, and between a price and an average, are   *)
(* exact comparisons of these integers (prices are multiplied by Scale     *)
(* where they meet an average).                                            *)
(*                                                                         *)
(* Exceptions.  The averages are numpy float64 values, whose division by   *)
(* zero yields inf or nan and does not raise; the two fetch functions and  *)
(* send_crossover_alert catch every exception themselves.  No step of a    *)
(* cycle can therefore raise, and the "except" branch of the loop has no   *)
(* action.                                                                 *)
(*                                                                         *)
(* Time.  clock is the time elapsed since start_time; only time.sleep(60)  *)
(* advances it.                                                            *)
(*                                                                         *)
(* Fields the program writes and never reads (last_ma20, last_ma60,        *)
(* last_signal_time, confirmation_periods, crossover_history) are left     *)
(* out.  The variables after notifier_calls are history variables: they    *)
(* record what earlier steps did and no action's guard reads them.         *)
(***************************************************************************)
EXTENDS Integers, Sequences, FiniteSets

(***************************************************************************)
(* Program constants                                                       *)
(***************************************************************************)
ShortWindow == 20
LongWindow == 60
HistoryLen == 10
SlopeLag == 5
HeartbeatEvery == 15
SleepSeconds == 60
DurationMinutes == 30

\* 1 / 0.001, the separation threshold of calculate_signal_strength
SeparationInverse == 1000

\* common denominator of the two window lengths
Scale == LongWindow

(***************************************************************************)
(* Bounds of the model                                                     *)
(***************************************************************************)
MaxClose == 1

\* the averages and prices given to calculate_signal_strength on its own are
\* 0 and SeparationInverse + 0 .. SeparationInverse + MaxStep
MaxStep == 3

Closes == 0..MaxClose

\* Lengths <<k1, k2, k3>> of the constant runs a full series is made of; one
\* more close follows them, so these series have 60, 61, 63, 64 and 65 samples.
Shapes == {<<39, 1, 19>>, <<40, 1, 19>>, <<42, 1, 19>>, <<43, 1, 19>>,
           <<40, 1, 23>>, <<41, 2, 21>>}

Rep(v, k) == [i \in 1..k |-> v]

\* Series too short for the long window: the empty list and 59 equal closes
ShortSeries == {<< >>} \cup { Rep(a, LongWindow - 1) : a \in Closes }

\* The close series an exchange may return: the short ones and, for every
\* shape, k1 closes a, k2 closes b, k3 closes c and a last close d.
SeriesInputs ==
    ShortSeries \cup
    { Rep(a, sh[1]) \o Rep(b, sh[2]) \o Rep(c, sh[3]) \o <<d>> :
        sh \in Shapes, a \in Closes, b \in Closes, c \in Closes, d \in Closes }

BarkKeys == {"None", "", "key"}
Kinds == {"golden_cross", "death_cross"}

VARIABLES
    pc,                    \* position of the run
    bark_key,              \* os.environ.get('BARK_KEY')
    last_crossover_state,  \* self.last_crossover_state
    clock,                 \* time.time() - start_time, in seconds
    check_count,           \* check_count
    kline_data,            \* kline_data of the current cycle
    ma_data,               \* ma_data of the current cycle
    crossover_info,        \* crossover_info of the current cycle
    queried,               \* price sources requested in the current cycle
    sent,                  \* what the current cycle handed to send_crossover_alert
    delivered,             \* what send_crossover_alert returned in the current cycle
    notifier_calls,        \* calls of send_crossover_alert in the current cycle
    state_at_start,        \* last_crossover_state when the current cycle began
    prev_detected,         \* kind of the latest crossover detected in an earlier cycle
    prev_confirmed,        \* kind of the latest crossover confirmed in an earlier cycle
    prev_failed_kind,      \* kind confirmed in the preceding cycle whose delivery failed
    alternating            \* the kinds detected in earlier cycles alternated

vars == <<pc, bark_key, last_crossover_state, clock,
          check_count, kline_data, ma_data, crossover_info, queried, sent,
          delivered, notifier_calls, state_at_start, prev_detected,
          prev_confirmed, prev_failed_kind, alternating>>

cycle_vars == <<kline_data, ma_data, crossover_info, queried, sent, delivered,
                notifier_calls, state_at_start>>

history_vars == <<prev_detected, prev_confirmed, prev_failed_kind, alternating>>

(***************************************************************************)
(* Values                                                                  *)
(***************************************************************************)
\* kline_data = None
NoKlines == [ok |-> FALSE, data |-> << >>, source |-> "None"]

\* ma_data = None
NoMA == [ok |-> FALSE, current_ma20 |-> 0, current_ma60 |-> 0,
         previous_ma20 |-> 0, previous_ma60 |-> 0,
         ma20_history |-> << >>, ma60_history |-> << >>, current_price |-> 0]

\* crossover_info before detect_crossover has returned in the cycle
NoInfo == [called |-> FALSE, signal_type |-> "None", signal_strength |-> "weak",
           crossover_confirmed |-> FALSE, price_position |-> "None"]

(***************************************************************************)
(* Python list operations                                                  *)
(***************************************************************************)
Max(a, b) == IF a >= b THEN a ELSE b
Min(a, b) == IF a <= b THEN a ELSE b
Abs(x) == IF x < 0 THEN 0 - x ELSE x

\* s[lo:hi] for 0-based bounds lo, hi >= 0 (a bound past the end is clipped)
Slice(s, lo, hi) == SubSeq(s, lo + 1, Min(hi, Len(s)))

\* s[-k] for 1 <= k <= len(s)
FromEnd(s, k) == s[Len(s) - k + 1]

\* s[-k:]
LastK(s, k) == SubSeq(s, Max(1, Len(s) - k + 1), Len(s))

RECURSIVE SumSeq(_)
SumSeq(s) == IF s = << >> THEN 0 ELSE s[1] + SumSeq(Tail(s))

\* np.mean(s) of a non-empty list, multiplied by Scale
np_mean(s) == (Scale * SumSeq(s)) \div Len(s)

(***************************************************************************)
(* calculate_moving_averages                                               *)
(***************************************************************************)
\* Faulty variant of ma20_window: closes[i-19:i], the current bar left out
ma20_window_short(closes, i) == Slice(closes, i - (ShortWindow - 1), i)

\* closes[i-19:i+1]
ma20_window(closes, i) == Slice(closes, i - (ShortWindow - 1), i + 1)

\* closes[i-59:i+1]
ma60_window(closes, i) == Slice(closes, i - (LongWindow - 1), i + 1)

\* the loop "for i in range(59, len(closes))" from bar i on, appending to
\* ma20_values
RECURSIVE ma20_loop(_, _, _)
ma20_loop(closes, i, values) ==
    IF i >= Len(closes) THEN values
    ELSE ma20_loop(closes, i + 1, Append(values, np_mean(ma20_window(closes, i))))

\* the same loop, appending to ma60_values
RECURSIVE ma60_loop(_, _, _)
ma60_loop(closes, i, values) ==
    IF i >= Len(closes) THEN values
    ELSE ma60_loop(closes, i + 1, Append(values, np_mean(ma60_window(closes, i))))

ma20_values(closes) == ma20_loop(closes, LongWindow - 1, << >>)

ma60_values(closes) == ma60_loop(closes, LongWindow - 1, << >>)

\* values[-2] if len(values) > 1 else values[-1]
previous_of(values) ==
    IF Len(values) > 1 THEN FromEnd(values, 2) ELSE FromEnd(values, 1)

\* Faulty variant of insufficient: a series of exactly 60 samples is refused
insufficient_61(klines) == Len(klines) < LongWindow + 1

\* len(klines) < 60: the data is reported insufficient
insufficient(klines) == Len(klines) < 60

\* Faulty variant of calculate_moving_averages: the length is tested against
\* the short window and a shorter series is averaged over what there is
calculate_moving_averages_short(klines) ==
    IF Len(klines) < ShortWindow THEN NoMA
    ELSE [ok |-> TRUE,
          current_ma20 |-> np_mean(LastK(klines, ShortWindow)),
          current_ma60 |-> np_mean(LastK(klines, LongWindow)),
          previous_ma20 |-> np_mean(LastK(klines, ShortWindow)),
          previous_ma60 |-> np_mean(LastK(klines, LongWindow)),
          ma20_history |-> <<np_mean(LastK(klines, ShortWindow))>>,
          ma60_history |-> <<np_mean(LastK(klines, LongWindow))>>,
          current_price |-> FromEnd(klines, 1)]

calculate_moving_averages(klines) ==
    IF insufficient(klines) THEN NoMA
    ELSE LET closes == klines
             m20 == ma20_values(closes)
             m60 == ma60_values(closes)
         IN  [ok |-> TRUE,
              current_ma20 |-> FromEnd(m20, 1),
              current_ma60 |-> FromEnd(m60, 1),
              previous_ma20 |-> previous_of(m20),
              previous_ma60 |-> previous_of(m60),
              ma20_history |-> LastK(m20, HistoryLen),
              ma60_history |-> LastK(m60, HistoryLen),
              current_price |-> FromEnd(closes, 1)]

(***************************************************************************)
(* calculate_signal_strength                                               *)
(***************************************************************************)
\* (latest - back) / back in numpy float64 arithmetic, by the class of the
\* result: division by zero gives inf or nan, it does not raise.
Slope(latest, back) ==
    IF back = 0 THEN (IF latest > 0 THEN "inf" ELSE IF latest < 0 THEN "-inf" ELSE "nan")
    ELSE IF latest > back THEN "pos"
    ELSE IF latest < back THEN "neg"
    ELSE "zero"

SlopePositive(sl) == sl \in {"pos", "inf"}
SlopeNegative(sl) == sl \in {"neg", "-inf"}

\* Faulty variant of trend_score: a history shorter than 5 is measured from
\* its oldest value
trend_score_oldest(ma, signal_type) ==
    LET back == Min(SlopeLag, Len(ma.ma20_history))
        ma20_slope == Slope(FromEnd(ma.ma20_history, 1), FromEnd(ma.ma20_history, back))
        ma60_slope == Slope(FromEnd(ma.ma60_history, 1), FromEnd(ma.ma60_history, back))
    IN  IF signal_type = "golden"
        THEN (IF SlopePositive(ma20_slope) /\ SlopePositive(ma60_slope) THEN 2
              ELSE IF SlopePositive(ma20_slope) THEN 1 ELSE 0)
        ELSE (IF SlopeNegative(ma20_slope) /\ SlopeNegative(ma60_slope) THEN 2
              ELSE IF SlopeNegative(ma20_slope) THEN 1 ELSE 0)

\* heuristic 1: slopes of the two averages over the last 5 history values
trend_score(ma, signal_type) ==
    IF Len(ma.ma20_history) >= SlopeLag
    THEN LET ma20_slope == Slope(FromEnd(ma.ma20_history, 1), FromEnd(ma.ma20_history, SlopeLag))
             ma60_slope == Slope(FromEnd(ma.ma60_history, 1), FromEnd(ma.ma60_history, SlopeLag))
         IN  IF signal_type = "golden"
             THEN (IF SlopePositive(ma20_slope) /\ SlopePositive(ma60_slope) THEN 2
                   ELSE IF SlopePositive(ma20_slope) THEN 1 ELSE 0)
             ELSE (IF SlopeNegative(ma20_slope) /\ SlopeNegative(ma60_slope) THEN 2
                   ELSE IF SlopeNegative(ma20_slope) THEN 1 ELSE 0)
    ELSE 0

\* heuristic 2: price against the two averages
price_score(ma, signal_type) ==
    LET price == Scale * ma.current_price
    IN  IF signal_type = "golden"
        THEN (IF price > ma.current_ma20 /\ ma.current_ma20 > ma.current_ma60 THEN 2
              ELSE IF price > ma.current_ma20 THEN 1 ELSE 0)
        ELSE (IF price < ma.current_ma20 /\ ma.current_ma20 < ma.current_ma60 THEN 2
              ELSE IF price < ma.current_ma20 THEN 1 ELSE 0)

\* Faulty variant of distance_score: the point goes to averages that are close
distance_score_inverted(ma) ==
    IF SeparationInverse * Abs(ma.current_ma20 - ma.current_ma60) > ma.current_ma60 THEN 0 ELSE 1

\* heuristic 3: abs(ma20 - ma60) / ma60 > 0.001; with ma60 = 0 the quotient
\* is inf (ma20 > 0, the test holds) or nan (ma20 = 0, the test fails)
distance_score(ma) ==
    IF SeparationInverse * Abs(ma.current_ma20 - ma.current_ma60) > ma.current_ma60 THEN 1 ELSE 0

strength_score(ma, signal_type) ==
    trend_score(ma, signal_type) + price_score(ma, signal_type) + distance_score(ma)

\* Faulty variant of calculate_signal_strength: a score of 4 is not yet strong
calculate_signal_strength_late(ma, signal_type) ==
    LET score == strength_score(ma, signal_type)
    IN  IF score > 4 THEN "strong"
        ELSE IF score >= 2 THEN "medium"
        ELSE "weak"

calculate_signal_strength(ma, signal_type) ==
    LET score == strength_score(ma, signal_type)
    IN  IF score >= 4 THEN "strong"
        ELSE IF score >= 2 THEN "medium"
        ELSE "weak"

(***************************************************************************)
(* detect_crossover                                                        *)
(***************************************************************************)
\* Faulty variant of classify: strict comparisons at the previous bar
classify_strict(previous_ma20, previous_ma60, current_ma20, current_ma60) ==
    IF previous_ma20 < previous_ma60 /\ current_ma20 > current_ma60 THEN "golden_cross"
    ELSE IF previous_ma20 > previous_ma60 /\ current_ma20 < current_ma60 THEN "death_cross"
    ELSE "None"

\* Faulty variant of classify: equal averages at the current bar are a cross
classify_loose(previous_ma20, previous_ma60, current_ma20, current_ma60) ==
    IF previous_ma20 <= previous_ma60 /\ current_ma20 >= current_ma60 THEN "golden_cross"
    ELSE IF previous_ma20 >= previous_ma60 /\ current_ma20 <= current_ma60 THEN "death_cross"
    ELSE "None"

\* the if / elif on the previous and current averages
classify(previous_ma20, previous_ma60, current_ma20, current_ma60) ==
    IF previous_ma20 <= previous_ma60 /\ current_ma20 > current_ma60 THEN "golden_cross"
    ELSE IF previous_ma20 >= previous_ma60 /\ current_ma20 < current_ma60 THEN "death_cross"
    ELSE "None"

price_position(ma) ==
    LET price == Scale * ma.current_price
    IN  IF price > Max(ma.current_ma20, ma.current_ma60) THEN "above_both"
        ELSE IF price < Min(ma.current_ma20, ma.current_ma60) THEN "below_both"
        ELSE "between_mas"

\* Faulty variant of is_new_signal: every detection counts as new
is_new_signal_always(last, signal_type) == TRUE

\* Faulty variant of is_new_signal: only the first detection of a run counts
is_new_signal_first_only(last, signal_type) == last = "None"

\* self.last_crossover_state != crossover_info['signal_type']
is_new_signal(last, signal_type) == last # signal_type

\* Faulty variant of detect_crossover: the confirmed kind is not stored
detect_crossover_no_store(ma, last) ==
    LET signal_type == classify(ma.previous_ma20, ma.previous_ma60,
                                ma.current_ma20, ma.current_ma60)
        strength == IF signal_type = "golden_cross" THEN calculate_signal_strength(ma, "golden")
                    ELSE IF signal_type = "death_cross" THEN calculate_signal_strength(ma, "death")
                    ELSE "weak"
        confirmed == signal_type # "None" /\ is_new_signal(last, signal_type)
    IN  [info |-> [called |-> TRUE,
                   signal_type |-> signal_type,
                   signal_strength |-> strength,
                   crossover_confirmed |-> confirmed,
                   price_position |-> price_position(ma)],
         state |-> last]

\* the value detect_crossover returns (info) and the value it leaves in
\* self.last_crossover_state (state)
detect_crossover(ma, last) ==
    LET signal_type == classify(ma.previous_ma20, ma.previous_ma60,
                                ma.current_ma20, ma.current_ma60)
        strength == IF signal_type = "golden_cross" THEN calculate_signal_strength(ma, "golden")
                    ELSE IF signal_type = "death_cross" THEN calculate_signal_strength(ma, "death")
                    ELSE "weak"
        confirmed == signal_type # "None" /\ is_new_signal(last, signal_type)
    IN  [info |-> [called |-> TRUE,
                   signal_type |-> signal_type,
                   signal_strength |-> strength,
                   crossover_confirmed |-> confirmed,
                   price_position |-> price_position(ma)],
         state |-> IF confirmed THEN signal_type ELSE last]

(***************************************************************************)
(* The run                                                                 *)
(***************************************************************************)
Init ==
    /\ pc = "main"
    /\ bark_key \in BarkKeys
    /\ last_crossover_state = "None"
    /\ clock = 0
    /\ check_count = 0
    /\ kline_data = NoKlines
    /\ ma_data = NoMA
    /\ crossover_info = NoInfo
    /\ queried = << >>
    /\ sent = "none"
    /\ delivered = "none"
    /\ notifier_calls = 0
    /\ state_at_start = "None"
    /\ prev_detected = "None"
    /\ prev_confirmed = "None"
    /\ prev_failed_kind = "None"
    /\ alternating = TRUE

\* Faulty variant of key_missing: an empty value passes
key_missing_unset_only(key) == key = "None"

\* "not bark_key": the variable is unset or empty
key_missing(key) == key \in {"None", ""}

\* main(): return when BARK_KEY is missing, else construct the monitor and
\* enter run_crossover_monitoring(duration_minutes=30) up to its loop test
Main ==
    /\ pc = "main"
    /\ pc' = IF key_missing(bark_key) THEN "exit" ELSE "loop"
    /\ last_crossover_state' = "None"
    /\ clock' = 0
    /\ check_count' = 0
    /\ UNCHANGED <<bark_key, cycle_vars, history_vars>>

\* while time.time() < end_time: check_count += 1
LoopTest ==
    /\ pc = "loop"
    /\ IF clock < DurationMinutes * 60
       THEN /\ pc' = "okx"
            /\ check_count' = check_count + 1
            /\ kline_data' = NoKlines
            /\ ma_data' = NoMA
            /\ crossover_info' = NoInfo
            /\ queried' = << >>
            /\ sent' = "none"
            /\ delivered' = "none"
            /\ notifier_calls' = 0
            /\ state_at_start' = last_crossover_state
       ELSE /\ pc' = "finished"
            /\ UNCHANGED <<check_count, cycle_vars>>
    /\ UNCHANGED <<bark_key, last_crossover_state, clock, history_vars>>

\* Faulty variant of FetchOKX: Binance is asked whatever OKX returned
FetchOKX_always_fallback ==
    /\ pc = "okx"
    /\ queried' = Append(queried, "OKX")
    /\ \/ \E series \in SeriesInputs :
            kline_data' = [ok |-> TRUE, data |-> series, source |-> "OKX"]
       \/ kline_data' = NoKlines
    /\ pc' = "binance"
    /\ UNCHANGED <<bark_key, last_crossover_state, clock, check_count, ma_data,
                   crossover_info, sent, delivered, notifier_calls,
                   state_at_start, history_vars>>

\* get_btc_5min_klines, first half: get_okx_5min_data returns a dict (which is
\* truthy whatever the length of its list) or None
FetchOKX ==
    /\ pc = "okx"
    /\ queried' = Append(queried, "OKX")
    /\ \/ \E series \in SeriesInputs :
            /\ kline_data' = [ok |-> TRUE, data |-> series, source |-> "OKX"]
            /\ pc' = "calc"
       \/ /\ kline_data' = NoKlines
          /\ pc' = "binance"
    /\ UNCHANGED <<bark_key, last_crossover_state, clock, check_count, ma_data,
                   crossover_info, sent, delivered, notifier_calls,
                   state_at_start, history_vars>>

\* Faulty variant of FetchBinance: the cycle goes on without data
FetchBinance_no_skip ==
    /\ pc = "binance"
    /\ queried' = Append(queried, "Binance")
    /\ \/ \E series \in SeriesInputs :
            kline_data' = [ok |-> TRUE, data |-> series, source |-> "Binance"]
       \/ kline_data' = NoKlines
    /\ pc' = "calc"
    /\ UNCHANGED <<bark_key, last_crossover_state, clock, check_count, ma_data,
                   crossover_info, sent, delivered, notifier_calls,
                   state_at_start, history_vars>>

\* get_btc_5min_klines, second half: get_binance_5min_data; when it fails too
\* the cycle is given up ("if not kline_data: ... continue")
FetchBinance ==
    /\ pc = "binance"
    /\ queried' = Append(queried, "Binance")
    /\ \/ \E series \in SeriesInputs :
            /\ kline_data' = [ok |-> TRUE, data |-> series, source |-> "Binance"]
            /\ pc' = "calc"
       \/ /\ kline_data' = NoKlines
          /\ pc' = "sleep"
    /\ UNCHANGED <<bark_key, last_crossover_state, clock, check_count, ma_data,
                   crossover_info, sent, delivered, notifier_calls,
                   state_at_start, history_vars>>

\* ma_data = self.calculate_moving_averages(kline_data['data']);
\* "if not ma_data: ... continue"
CalcMA ==
    /\ pc = "calc"
    /\ ma_data' = calculate_moving_averages(kline_data.data)
    /\ pc' = IF ma_data'.ok THEN "detect" ELSE "sleep"
    /\ UNCHANGED <<bark_key, last_crossover_state, clock, check_count, kline_data,
                   crossover_info, queried, sent, delivered, notifier_calls,
                   state_at_start, history_vars>>

\* crossover_info = self.detect_crossover(ma_data)
DetectCrossover ==
    /\ pc = "detect"
    /\ LET r == detect_crossover(ma_data, last_crossover_state)
       IN  /\ crossover_info' = r.info
           /\ last_crossover_state' = r.state
    /\ pc' = "notify"
    /\ UNCHANGED <<bark_key, clock, check_count, kline_data, ma_data, queried,
                   sent, delivered, notifier_calls, state_at_start, history_vars>>

\* Faulty variant of should_alert: the confirmation flag is not tested
should_alert_unconfirmed(info) == info.signal_type # "None"

\* crossover_info['signal_type'] and crossover_info['crossover_confirmed']
should_alert(info) == info.signal_type # "None" /\ info.crossover_confirmed

\* Faulty variant of heartbeat_due: due one check after every multiple of 15
heartbeat_due_late(count) == count % HeartbeatEvery = 1

\* check_count % 15 == 0
heartbeat_due(count) == count % HeartbeatEvery = 0

\* the crossover alert: format_crossover_message, then send_crossover_alert,
\* which returns True or False (every exception is caught inside it)
SendCrossoverAlert ==
    /\ pc = "notify"
    /\ should_alert(crossover_info)
    /\ sent' = "crossover"
    /\ \E result \in {"ok", "failed"} : delivered' = result
    /\ notifier_calls' = notifier_calls + 1
    /\ pc' = "sleep"
    /\ UNCHANGED <<bark_key, last_crossover_state, clock, check_count, kline_data,
                   ma_data, crossover_info, queried, state_at_start, history_vars>>

\* the status update of every 15th check, when there is no crossover alert
SendStatusUpdate ==
    /\ pc = "notify"
    /\ ~should_alert(crossover_info)
    /\ heartbeat_due(check_count)
    /\ sent' = "status"
    /\ \E result \in {"ok", "failed"} : delivered' = result
    /\ notifier_calls' = notifier_calls + 1
    /\ pc' = "sleep"
    /\ UNCHANGED <<bark_key, last_crossover_state, clock, check_count, kline_data,
                   ma_data, crossover_info, queried, state_at_start, history_vars>>

\* neither branch: nothing is sent
NoAlert ==
    /\ pc = "notify"
    /\ ~should_alert(crossover_info)
    /\ ~heartbeat_due(check_count)
    /\ pc' = "sleep"
    /\ UNCHANGED <<bark_key, last_crossover_state, clock, check_count, cycle_vars,
                   history_vars>>

\* Faulty variant of Sleep: the next loop test follows without a delay
Sleep_no_delay ==
    /\ pc = "sleep"
    /\ pc' = "loop"
    /\ UNCHANGED <<bark_key, last_crossover_state, clock, check_count, cycle_vars,
                   history_vars>>

\* time.sleep(60) at the end of a cycle or before "continue"
Sleep ==
    /\ pc = "sleep"
    /\ clock' = clock + SleepSeconds
    /\ pc' = "loop"
    /\ LET detected == crossover_info.called /\ crossover_info.signal_type # "None"
           kind == crossover_info.signal_type
       IN  /\ prev_detected' = IF detected THEN kind ELSE prev_detected
           /\ prev_confirmed' = IF detected /\ crossover_info.crossover_confirmed
                                THEN kind ELSE prev_confirmed
           /\ prev_failed_kind' = IF sent = "crossover" /\ delivered = "failed"
                                  THEN kind ELSE "None"
           /\ alternating' = IF detected THEN alternating /\ kind # prev_detected
                             ELSE alternating
    /\ UNCHANGED <<bark_key, last_crossover_state, check_count, cycle_vars>>

Next ==
    \/ Main
    \/ LoopTest
    \/ FetchOKX
    \/ FetchBinance
    \/ CalcMA
    \/ DetectCrossover
    \/ SendCrossoverAlert
    \/ SendStatusUpdate
    \/ NoAlert
    \/ Sleep

Spec == Init /\ [][Next]_vars

(***************************************************************************)
(* calculate_signal_strength on its own: the function applied to averages, *)
(* histories and prices that need not come from one series                 *)
(***************************************************************************)
StrengthValues == {0} \cup { SeparationInverse + k : k \in 0..MaxStep }

\* a history of the given length that ends with the current average; when it
\* has 5 entries the first one is the value 5 samples back
history_of(len, back, current) ==
    IF len >= SlopeLag THEN <<back>> \o Rep(current, len - 1) ELSE Rep(current, len)

StrengthInputs ==
    { [ok |-> TRUE,
       current_ma20 |-> Scale * c20,
       current_ma60 |-> Scale * c60,
       previous_ma20 |-> Scale * c20,
       previous_ma60 |-> Scale * c60,
       ma20_history |-> history_of(len, Scale * b20, Scale * c20),
       ma60_history |-> history_of(len, Scale * b60, Scale * c60),
       current_price |-> price] :
        c20 \in StrengthValues, c60 \in StrengthValues, b20 \in StrengthValues,
        b60 \in StrengthValues, price \in StrengthValues,
        len \in {SlopeLag - 1, SlopeLag} }

\* the second argument of calculate_signal_strength for a kind
short_name(kind) == IF kind = "golden_cross" THEN "golden" ELSE "death"

InitStrength ==
    /\ pc = "strength"
    /\ bark_key = "key"
    /\ last_crossover_state = "None"
    /\ clock = 0
    /\ check_count = 0
    /\ kline_data = NoKlines
    /\ ma_data \in StrengthInputs
    /\ \E kind \in Kinds : crossover_info = [NoInfo EXCEPT !.signal_type = kind]
    /\ queried = << >>
    /\ sent = "none"
    /\ delivered = "none"
    /\ notifier_calls = 0
    /\ state_at_start = "None"
    /\ prev_detected = "None"
    /\ prev_confirmed = "None"
    /\ prev_failed_kind = "None"
    /\ alternating = TRUE

\* crossover_info['signal_strength'] = self.calculate_signal_strength(ma_data, kind)
ScoreStrength ==
    /\ pc = "strength"
    /\ crossover_info' =
          [crossover_info EXCEPT !.signal_strength =
              calculate_signal_strength(ma_data, short_name(crossover_info.signal_type))]
    /\ pc' = "scored"
    /\ UNCHANGED <<bark_key, last_crossover_state, clock, check_count, kline_data,
                   ma_data, queried, sent, delivered, notifier_calls,
                   state_at_start, history_vars>>

NextStrength == ScoreStrength

SpecStrength == InitStrength /\ [][NextStrength]_vars

(***************************************************************************)
(* Properties                                                              *)
(***************************************************************************)
\* detect_crossover has returned in the current cycle
AfterDetect == crossover_info.called /\ pc \in {"notify", "sleep"}

\* the current cycle has run to its sleep
CycleEnd == pc = "sleep"

\* the kind detected in the current cycle
Kind == crossover_info.signal_type

Opposite(kind) == IF kind = "golden_cross" THEN "death_cross" ELSE "golden_cross"

\* sum of closes[lo..hi], 0-based and inclusive
RECURSIVE WindowSum(_, _, _)
WindowSum(closes, lo, hi) ==
    IF hi < lo THEN 0 ELSE closes[hi + 1] + WindowSum(closes, lo, hi - 1)

GoldenCondition ==
    ma_data.previous_ma20 <= ma_data.previous_ma60 /\ ma_data.current_ma20 > ma_data.current_ma60

DeathCondition ==
    ma_data.previous_ma20 >= ma_data.previous_ma60 /\ ma_data.current_ma20 < ma_data.current_ma60

\* C1: detect_crossover reports golden_cross exactly when S_prev <= L_prev and
\* S_curr > L_curr, death_cross exactly when S_prev >= L_prev and
\* S_curr < L_curr, and None exactly when neither holds; the two conditions
\* never hold together.
C1_Classification ==
    AfterDetect =>
        /\ (Kind = "golden_cross") <=> GoldenCondition
        /\ (Kind = "death_cross") <=> DeathCondition
        /\ (Kind = "None") <=> (~GoldenCondition /\ ~DeathCondition)
        /\ ~(GoldenCondition /\ DeathCondition)

\* C1 witness: the averages were equal at the previous bar and the short one
\* is above at the current bar, reported as a golden cross
C1_Witness ==
    /\ AfterDetect
    /\ ma_data.previous_ma20 = ma_data.previous_ma60
    /\ ma_data.current_ma20 > ma_data.current_ma60
    /\ Kind = "golden_cross"

\* C2 (as claimed): at the end of a cycle last_crossover_state differs from
\* its value at the start of the cycle only if the cycle's crossover was
\* confirmed and its alert was delivered successfully.
C2_ChangesOnlyOnDelivery ==
    (CycleEnd /\ last_crossover_state # state_at_start) =>
        /\ crossover_info.called
        /\ crossover_info.crossover_confirmed
        /\ sent = "crossover"
        /\ delivered = "ok"

\* C3 (as claimed): when the preceding cycle confirmed a crossover of kind K
\* and its delivery failed, a cycle that detects K again reports it confirmed
\* and hands it to the notifier again.
C3_RetryAfterFailure ==
    (AfterDetect /\ prev_failed_kind # "None" /\ Kind = prev_failed_kind) =>
        /\ crossover_info.crossover_confirmed
        /\ CycleEnd => sent = "crossover"

\* C4: a detected crossover of kind K is confirmed exactly when K differs from
\* last_crossover_state as it was when detect_crossover was called, and then
\* last_crossover_state is K afterwards; a classification of None is not
\* confirmed and leaves last_crossover_state as it was.
C4_Confirmation ==
    AfterDetect =>
        /\ Kind # "None" =>
              /\ crossover_info.crossover_confirmed <=> (Kind # state_at_start)
              /\ crossover_info.crossover_confirmed => last_crossover_state = Kind
        /\ Kind = "None" =>
              /\ ~crossover_info.crossover_confirmed
              /\ last_crossover_state = state_at_start

\* C4 witness: a crossover is confirmed while the opposite kind was stored
C4_Witness ==
    /\ AfterDetect
    /\ Kind \in Kinds
    /\ state_at_start = Opposite(Kind)
    /\ crossover_info.crossover_confirmed
    /\ last_crossover_state = Kind

C6_AlternatingReconfirm ==
    (AfterDetect /\ Kind # "None" /\ alternating /\ Kind # prev_detected) =>
        crossover_info.crossover_confirmed

\* C6 witness: a golden cross follows an alternating history that ended with a
\* death cross, and is confirmed
C6_Witness ==
    /\ AfterDetect
    /\ alternating
    /\ prev_detected = "death_cross"
    /\ Kind = "golden_cross"
    /\ crossover_info.crossover_confirmed

\* C7 (as claimed): send_crossover_alert is called in a cycle only if the
\* cycle's crossover has a kind and is confirmed.
C7_NotifierOnlyOnConfirmed ==
    notifier_calls > 0 =>
        (crossover_info.called /\ Kind # "None" /\ crossover_info.crossover_confirmed)

\* C7 (amended): a crossover alert is sent only for a crossover that has a
\* kind and is confirmed; in any other cycle the only call of
\* send_crossover_alert is the status update, made when check_count is a
\* multiple of 15.
C7_AlertOnlyOnConfirmed ==
    /\ sent = "crossover" =>
          (crossover_info.called /\ Kind # "None" /\ crossover_info.crossover_confirmed)
    /\ sent = "status" => check_count % 15 = 0
    /\ notifier_calls > 0 => sent # "none"
    /\ (CycleEnd /\ ~(crossover_info.called /\ Kind # "None" /\ crossover_info.crossover_confirmed)
          /\ check_count % 15 # 0) => notifier_calls = 0

\* C7 witness: a cycle ends whose crossover was detected but not confirmed, and
\* nothing was handed to the notifier
C7_Witness ==
    /\ CycleEnd
    /\ crossover_info.called
    /\ Kind \in Kinds
    /\ ~crossover_info.crossover_confirmed
    /\ notifier_calls = 0

\* what a cycle skipped for lack of data leaves behind
CycleSkipped ==
    /\ ~ma_data.ok
    /\ ~crossover_info.called
    /\ sent = "none"
    /\ notifier_calls = 0
    /\ last_crossover_state = state_at_start

\* C8 (as claimed): a cycle whose series has fewer than 61 samples gets no
\* averages, no crossover, no notification and no state change.
C8_InsufficientBelow61 ==
    (CycleEnd /\ kline_data.ok /\ Len(kline_data.data) < LongWindow + 1) => CycleSkipped

\* C8 (amended): a cycle whose series has fewer than 60 samples gets no
\* averages, no crossover, no notification and no state change.
C8_InsufficientBelow60 ==
    (kline_data.ok /\ Len(kline_data.data) < LongWindow /\ pc # "calc") =>
        (pc \in {"sleep", "loop", "finished"} /\ CycleSkipped)

\* C8 witness: a cycle on 59 samples ends skipped while a kind is stored
C8_Witness ==
    /\ CycleEnd
    /\ kline_data.ok
    /\ Len(kline_data.data) = LongWindow - 1
    /\ state_at_start # "None"
    /\ CycleSkipped

\* both sources were asked in the current cycle and neither gave data
BothSourcesFailed == queried = <<"OKX", "Binance">> /\ ~kline_data.ok

\* C9: when both sources fail the cycle is skipped: no averages, no call of
\* detect_crossover, no alert, last_crossover_state unchanged, and the run
\* goes to its sleep and on to the next loop test.
C9_DataUnavailable ==
    BothSourcesFailed => (pc \in {"sleep", "loop", "finished"} /\ CycleSkipped)

\* C9 witness: both sources failed in a cycle that began with a kind stored
C9_Witness ==
    /\ BothSourcesFailed
    /\ CycleEnd
    /\ state_at_start # "None"
    /\ CycleSkipped

\* C10: for a series of n >= 61 closes the current MA20 and MA60 are the means
\* of closes[n-20..n-1] and closes[n-60..n-1], the previous ones the means of
\* closes[n-21..n-2] and closes[n-61..n-2], and current_price is closes[n-1].
C10_Means ==
    (ma_data.ok /\ pc = "detect" /\ Len(kline_data.data) >= LongWindow + 1) =>
        LET closes == kline_data.data
            n == Len(closes)
        IN  /\ ShortWindow * ma_data.current_ma20 = Scale * WindowSum(closes, n - 20, n - 1)
            /\ LongWindow * ma_data.current_ma60 = Scale * WindowSum(closes, n - 60, n - 1)
            /\ ShortWindow * ma_data.previous_ma20 = Scale * WindowSum(closes, n - 21, n - 2)
            /\ LongWindow * ma_data.previous_ma60 = Scale * WindowSum(closes, n - 61, n - 2)
            /\ ma_data.current_price = closes[n]

\* C10 witness: averages of a series of 65 closes whose previous and current
\* values differ for both windows
C10_Witness ==
    /\ ma_data.ok
    /\ pc = "detect"
    /\ Len(kline_data.data) = 65
    /\ ma_data.previous_ma20 # ma_data.current_ma20
    /\ ma_data.previous_ma60 # ma_data.current_ma60

\* what the three heuristics are said to contribute, from the averages, the
\* price and the histories alone
SlopeUp(history) == FromEnd(history, 1) > FromEnd(history, 5)
SlopeDown(history) == FromEnd(history, 1) < FromEnd(history, 5)

TrendPoints(ma, kind) ==
    IF Len(ma.ma20_history) < 5 THEN 0
    ELSE IF kind = "golden_cross"
         THEN (IF SlopeUp(ma.ma20_history) /\ SlopeUp(ma.ma60_history) THEN 2
               ELSE IF SlopeUp(ma.ma20_history) THEN 1 ELSE 0)
         ELSE (IF SlopeDown(ma.ma20_history) /\ SlopeDown(ma.ma60_history) THEN 2
               ELSE IF SlopeDown(ma.ma20_history) THEN 1 ELSE 0)

PricePoints(ma, kind) ==
    LET p == Scale * ma.current_price
        short == ma.current_ma20
        long == ma.current_ma60
    IN  IF kind = "golden_cross"
        THEN (IF p > short /\ short > long THEN 2 ELSE IF p > short THEN 1 ELSE 0)
        ELSE (IF p < short /\ short < long THEN 2 ELSE IF p < short THEN 1 ELSE 0)

\* |short - long| / long > 0.001; a zero long average separates any short one
\* above it
Separated(ma) ==
    1000 * Abs(ma.current_ma20 - ma.current_ma60) > ma.current_ma60

SeparationPoints(ma) == IF Separated(ma) THEN 1 ELSE 0

ExpectedScore(ma, kind) ==
    TrendPoints(ma, kind) + PricePoints(ma, kind) + SeparationPoints(ma)

TierOf(score) ==
    IF score >= 4 THEN "strong" ELSE IF score >= 2 THEN "medium" ELSE "weak"

TierRank(tier) == IF tier = "strong" THEN 2 ELSE IF tier = "medium" THEN 1 ELSE 0

\* C11: the score of calculate_signal_strength is the sum of the trend, price
\* and separation points, lies in 0..5, and the tier returned is strong iff
\* the score is at least 4, medium iff it is 2 or 3, weak iff it is at most 1.
C11_ScoreAndTier ==
    pc = "scored" =>
        LET expected == ExpectedScore(ma_data, Kind)
            tier == crossover_info.signal_strength
        IN  /\ strength_score(ma_data, short_name(Kind)) = expected
            /\ expected \in 0..5
            /\ (tier = "strong") <=> expected >= 4
            /\ (tier = "medium") <=> (expected >= 2 /\ expected <= 3)
            /\ (tier = "weak") <=> expected <= 1

\* C11 witness: a golden cross scored 4 (short slope up only, price above
\* both averages, averages separated) and rated strong
C11_Witness ==
    /\ pc = "scored"
    /\ Kind = "golden_cross"
    /\ TrendPoints(ma_data, Kind) = 1
    /\ PricePoints(ma_data, Kind) = 2
    /\ SeparationPoints(ma_data) = 1
    /\ crossover_info.signal_strength = "strong"

\* for every input with separation above 0.1%: its kind, trend points, price
\* points, score and tier
SeparatedResults ==
    { <<kind, TrendPoints(y, kind), PricePoints(y, kind),
        strength_score(y, short_name(kind)),
        calculate_signal_strength(y, short_name(kind))>> :
        y \in { z \in StrengthInputs : Separated(z) }, kind \in Kinds }

\* the results of the separated inputs that have the kind, trend points and
\* price points of the input just scored
SeparatedPeers ==
    { r \in SeparatedResults :
        /\ r[1] = Kind
        /\ r[2] = TrendPoints(ma_data, Kind)
        /\ r[3] = PricePoints(ma_data, Kind) }

\* C12: an input whose separation is at most 0.1% has a score and a tier not
\* above those of any input of the same kind, trend points and price points
\* whose separation is above 0.1%.
C12_SeparationMonotone ==
    (pc = "scored" /\ ~Separated(ma_data)) =>
        \A r \in SeparatedPeers :
            /\ r[4] >= strength_score(ma_data, short_name(Kind))
            /\ TierRank(r[5]) >= TierRank(crossover_info.signal_strength)

\* C12 witness: averages that differ by exactly 0.1% are scored 3 and rated
\* medium, and a separated input with the same trend and price points is
\* rated strong
C12_Witness ==
    /\ pc = "scored"
    /\ ~Separated(ma_data)
    /\ ma_data.current_ma20 # ma_data.current_ma60
    /\ ma_data.current_ma60 # 0
    /\ crossover_info.signal_strength = "medium"
    /\ \E r \in SeparatedPeers : r[5] = "strong"

\* C13: the histories have fewer than 5 values exactly for series of 60 to 63
\* samples; a crossover scored on such histories gets no trend points: its
\* score is the sum of the price and separation points and its tier the tier
\* of that sum.
C13_ShortHistory ==
    /\ (ma_data.ok /\ kline_data.ok) =>
          /\ Len(ma_data.ma20_history) = Len(ma_data.ma60_history)
          /\ (Len(ma_data.ma20_history) < 5) <=> (Len(kline_data.data) <= 63)
    /\ (AfterDetect /\ Kind # "None" /\ Len(ma_data.ma20_history) < 5) =>
          LET points == PricePoints(ma_data, Kind) + SeparationPoints(ma_data)
          IN  /\ trend_score(ma_data, short_name(Kind)) = 0
              /\ strength_score(ma_data, short_name(Kind)) = points
              /\ crossover_info.signal_strength = TierOf(points)

\* C13 witness: a crossover is scored on the 4-value histories of a series of
\* 63 samples whose short average rose or fell over the history
C13_Witness ==
    /\ AfterDetect
    /\ Kind \in Kinds
    /\ Len(kline_data.data) = 63
    /\ Len(ma_data.ma20_history) = 4
    /\ ma_data.ma20_history[1] # ma_data.ma20_history[4]

\* the divisors of calculate_signal_strength are all non-zero
StrengthDivisorsNonZero ==
    /\ ma_data.current_ma60 # 0
    /\ Len(ma_data.ma20_history) >= 5 =>
          /\ FromEnd(ma_data.ma20_history, 5) # 0
          /\ FromEnd(ma_data.ma60_history, 5) # 0

\* the divisors of format_crossover_message are all non-zero
FormatDivisorsNonZero ==
    /\ ma_data.current_ma20 # 0
    /\ ma_data.current_ma60 # 0

\* C14 (as claimed): whenever a crossover is scored the divisors of
\* calculate_signal_strength are non-zero, and whenever a crossover alert is
\* composed the divisors of format_crossover_message are non-zero.
C14_NonZeroDivisors ==
    /\ (AfterDetect /\ Kind # "None") => StrengthDivisorsNonZero
    /\ sent = "crossover" => FormatDivisorsNonZero

\* C15: when BARK_KEY is unset or empty, main returns at once: the run is at
\* its exit, no price source was asked, nothing was handed to the notifier
\* and no check cycle was started.
C15_MissingKey ==
    (bark_key \in {"None", ""} /\ pc # "main") =>
        /\ pc = "exit"
        /\ queried = << >>
        /\ ~kline_data.ok
        /\ notifier_calls = 0
        /\ sent = "none"
        /\ check_count = 0

\* C15 witness: main has returned on an empty BARK_KEY
C15_Witness ==
    /\ bark_key = ""
    /\ pc = "exit"

\* C16: OKX is asked first and Binance only after OKX returned nothing; the
\* source label is the provider asked last, whose data is used; a cycle is
\* without data only after both were asked.
C16_Fallback ==
    /\ queried \in {<< >>, <<"OKX">>, <<"OKX", "Binance">>}
    /\ pc = "binance" => (queried = <<"OKX">> /\ ~kline_data.ok)
    /\ kline_data.ok =>
          /\ queried # << >>
          /\ kline_data.source = queried[Len(queried)]
    /\ pc \in {"calc", "detect", "notify"} => kline_data.ok
    /\ (pc = "sleep" /\ ~kline_data.ok) => queried = <<"OKX", "Binance">>

\* C16 witness: OKX gave nothing and the cycle goes on with Binance data
C16_Witness ==
    /\ pc = "calc"
    /\ queried = <<"OKX", "Binance">>
    /\ kline_data.ok
    /\ kline_data.source = "Binance"
    /\ Len(kline_data.data) >= LongWindow

\* a cycle whose data is a series of exactly 60 samples, past the averages
OnExactly60 ==
    /\ kline_data.ok
    /\ Len(kline_data.data) = LongWindow
    /\ pc \in {"detect", "notify", "sleep"}

\* C17: a series of exactly 60 samples is accepted, its previous averages
\* equal its current ones, detect_crossover classifies it as no cross, and
\* the cycle neither sends a crossover alert nor changes last_crossover_state.
C17_Exactly60 ==
    OnExactly60 =>
        /\ ma_data.ok
        /\ ma_data.previous_ma20 = ma_data.current_ma20
        /\ ma_data.previous_ma60 = ma_data.current_ma60
        /\ pc # "detect" =>
              /\ crossover_info.called
              /\ Kind = "None"
              /\ ~crossover_info.crossover_confirmed
        /\ sent # "crossover"
        /\ last_crossover_state = state_at_start

\* C17 witness: the end of a cycle on 60 samples whose short average is above
\* the long one, in a run that has confirmed a death cross before
C17_Witness ==
    /\ OnExactly60
    /\ CycleEnd
    /\ crossover_info.called
    /\ ma_data.current_ma20 > ma_data.current_ma60
    /\ state_at_start = "death_cross"

\* C18: for every crossover detect_crossover scores, the price heuristic
\* gives 0 or 2 points and never 1: the short average is strictly on the
\* crossing side of the long one, so a price beyond the short average is
\* beyond both.
C18_PriceNeverOne ==
    (AfterDetect /\ Kind # "None") =>
        /\ price_score(ma_data, short_name(Kind)) \in {0, 2}
        /\ Kind = "golden_cross" => ma_data.current_ma20 > ma_data.current_ma60
        /\ Kind = "death_cross" => ma_data.current_ma20 < ma_data.current_ma60

\* C18 witness: a golden cross whose price is above the short average
C18_Witness ==
    /\ AfterDetect
    /\ Kind = "golden_cross"
    /\ Scale * ma_data.current_price > ma_data.current_ma20
    /\ price_score(ma_data, "golden") = 2

\* a death cross whose price is not below the short average: no points
C18_WitnessZero ==
    /\ AfterDetect
    /\ Kind = "death_cross"
    /\ price_score(ma_data, "death") = 0

\* the positions of a run that lie inside a cycle
InCycle == pc \in {"okx", "binance", "calc", "detect", "notify", "sleep"}

\* the cycle holds a crossover that is to be alerted
ConfirmedCrossover ==
    /\ crossover_info.signal_type # "None"
    /\ crossover_info.crossover_confirmed

\* C19: at most one call of send_crossover_alert per cycle; at the end of a
\* cycle a status update was sent exactly when data was fetched, averages
\* were computed, there is no confirmed crossover and check_count is a
\* multiple of 15; a status update, delivered or not, leaves
\* last_crossover_state as it was; every cycle, skipped ones included, has
\* incremented check_count.
C19_Heartbeat ==
    /\ notifier_calls <= 1
    /\ sent = "none" <=> notifier_calls = 0
    /\ CycleEnd =>
          (sent = "status" <=>
              /\ kline_data.ok
              /\ ma_data.ok
              /\ ~ConfirmedCrossover
              /\ check_count % HeartbeatEvery = 0)
    /\ sent = "status" => last_crossover_state = state_at_start
    /\ InCycle => check_count = clock \div SleepSeconds + 1

\* C19 witness: the status update of check 30 failed to be delivered, in a
\* run that has confirmed a crossover before
C19_Witness ==
    /\ CycleEnd
    /\ sent = "status"
    /\ delivered = "failed"
    /\ check_count = 2 * HeartbeatEvery
    /\ last_crossover_state # "None"

\* a skipped cycle is counted: check 15 without data and without status update
C19_SkippedCounted ==
    /\ CycleEnd
    /\ CycleSkipped
    /\ check_count = HeartbeatEvery
    /\ sent = "none"

\* The rank of a position within a cycle, and a measure of what is left of
\* the run: the whole delays still to come, then the steps left in the cycle.
PcRank ==
    CASE pc = "main" -> 9
      [] pc = "loop" -> 8
      [] pc = "okx" -> 7
      [] pc = "binance" -> 6
      [] pc = "calc" -> 5
      [] pc = "detect" -> 4
      [] pc = "notify" -> 3
      [] pc = "sleep" -> 2
      [] OTHER -> 0

Remaining == 10 * (DurationMinutes - clock \div SleepSeconds) + PcRank

RunOver == pc \in {"finished", "exit"}

\* some step of the run can be taken (CalcMA has no guard but its position)
CanStep ==
    \/ ENABLED Main
    \/ ENABLED LoopTest
    \/ ENABLED FetchOKX
    \/ ENABLED FetchBinance
    \/ pc = "calc"
    \/ ENABLED DetectCrossover
    \/ ENABLED SendCrossoverAlert
    \/ ENABLED SendStatusUpdate
    \/ ENABLED NoAlert
    \/ ENABLED Sleep

\* what holds of the clock and the count of cycles in every state
C20_Bounded ==
    /\ check_count <= DurationMinutes
    /\ Remaining >= 0
    /\ InCycle => clock = SleepSeconds * (check_count - 1)
    /\ pc = "loop" => clock = SleepSeconds * check_count
    /\ pc = "finished" =>
          /\ check_count = DurationMinutes
          /\ clock = SleepSeconds * DurationMinutes
    /\ ~RunOver => CanStep

\* C20: the run terminates. Every step brings the run nearer to its end: a
\* cycle is a fixed sequence of steps, it ends with one delay of 60 seconds
\* whatever happened in it, and the loop test follows; there are at most
\* duration_minutes cycles, the loop is left only when the time is up, and
\* no state before the end is without a next step.
C20_Terminates ==
    /\ []C20_Bounded
    /\ [][/\ Remaining' < Remaining
          /\ pc = "sleep" <=> clock' = clock + SleepSeconds
          /\ pc # "sleep" => clock' = clock]_vars

\* C20 witness: the loop was left after 30 cycles, the last of them skipped
C20_Witness ==
    /\ pc = "finished"
    /\ check_count = DurationMinutes
    /\ ~kline_data.ok

=============================================================================
